---------------------------- MODULE Spec2Model ----------------------------
(***************************************************************************)
(* Model of the music server (src/src/musicserver/__init__.py): the        *)
(* Playlist (queue of Song objects, refcount map, blob directory, cursor), *)
(* the Player (observed state, loaded song, cached position, polling       *)
(* loop), the MusicServer that keeps both consistent, and the GStreamer    *)
(* pipeline the Player drives, seen through the calls the Player makes on  *)
(* it (set_state, set_property uri, the bus, the queries).                 *)
(*                                                                         *)
(* Scheduling: command handlers and the polling loop run on one tornado    *)
(* IOLoop.  A handler never awaits, so it is one atomic action.  The       *)
(* polling loop only awaits in the branch that found no message, so from   *)
(* waking up until the bus is found empty it runs without letting a        *)
(* command in; the pipeline's own threads run at any time.                 *)
(***************************************************************************)
EXTENDS Integers, Sequences, FiniteSets, TLC

\* ------------------------------------------------------------------ bounds
\* The configured 'playlistsize' of the Playlist (Playlist._size).
PlaylistSize == 2
\* A client enqueues only while the queue holds fewer than MaxQueue songs.
MaxQueue == 3
\* The pipeline posts a message of its own accord (a step of a change to a
\* higher state, EOS) only while fewer than MaxBus messages wait on the bus;
\* the messages a handler's set_state posts within the call always fit.
MaxBus == 1

\* The sha256 digests of the contents clients upload: two distinct blobs.
Hashes == {1, 2}
\* Identities of Song objects.  A Song of the queue is named by its place in
\* the queue (1 for the front); a Song only the Player still holds, after it
\* left the queue, is named Detached.
Detached == MaxQueue + 1
SongIds == 1..Detached

\* Python's None (current index, position, duration).
None == -1
\* The seconds skipforwards and skipbackwards move by.
SkipSeconds == 10
\* The positions a position query may report, within the medium's duration.
Positions == {0, 2 * SkipSeconds}
\* The duration, in seconds, of the medium with hash h: one medium shorter
\* than a skip, one longer than two.
MediaDuration(h) == 2 * SkipSeconds * (h - 1) + 5
\* The fractions clients pass to seek, in units of 1/FractionScale: below the
\* range, its ends, inside it, above it.
FractionScale == 5
Fractions == {-1, 0, 2, FractionScale, FractionScale + 1}
\* The Player's _song before the first play, and "no current song".
NoSong == [id |-> 0, hash |-> 0]

Min(a, b) == IF a < b THEN a ELSE b
Max(a, b) == IF a > b THEN a ELSE b

\* ------------------------------------------------------------------- state
VARIABLES
    queue,      \* Playlist._queue: sequence of Song objects [id, hash]
    refcount,   \* Playlist._refcount: function from the known hashes to counts
    files,      \* hashes of the blobs present in the song directory
    current,    \* Playlist._current
    duration,   \* Song._duration of each Song object, by id
    state,      \* Player._state: "stop", "pause" or "play"
    song,       \* Player._song
    position,   \* Player._position
    engState,   \* the pipeline's state
    engTarget,  \* the state last requested from the pipeline with set_state
    engUri,     \* the pipeline's 'uri' property (the blob's hash), 0 if unset
    engLoaded,  \* hash of the blob the pipeline has opened, 0 if none
    engEos,     \* the pipeline has reached the end of the stream
    bus,        \* the pipeline's bus: the messages not yet popped that
                \* act on the Player (the pipeline's STATE_CHANGED, EOS)
    pollpc,     \* position of Player.run: "sleep" (in tornado.gen.sleep),
                \* "run" (between two iterations), "crashed" or "done"
                \* (returned)
    volume,     \* the pipeline's 'volume' property, in 1/FractionScale
    closing,    \* Player._closing and WebServer._closing
    ioloop,     \* the IOLoop: "running" or "stopped"
    lastOp      \* observation: the handler the last step ran and what it did

playlistVars == <<queue, refcount, files, current>>
playerVars == <<state, song, position>>
engineVars == <<engState, engTarget, engUri, engLoaded, engEos, bus>>
appVars == <<volume, closing, ioloop>>
vars == <<queue, refcount, files, current, duration, state, song, position,
          engState, engTarget, engUri, engLoaded, engEos, bus, pollpc,
          volume, closing, ioloop, lastOp>>

\* ---------------------------------------------------------------- Playlist
\* The Playlist object as a value, so that a handler's calls compose; wrote
\* tells whether the handler saved a blob (Playlist._save).
PL == [queue |-> queue, refcount |-> refcount, files |-> files,
       current |-> current, wrote |-> FALSE]

\* Playlist.current: the Song at the cursor, or None.
Current(P) == IF P.queue = << >> THEN NoSong ELSE P.queue[P.current + 1]

\* Playlist.currentindex: the cursor, or None when the queue is empty.
CurrentIndex(P) == IF P.queue = << >> THEN None ELSE P.current

\* A variant of RemoveRefcount that keeps the blob and the entry at zero.
RemoveRefcountKeeping(P, s) == [P EXCEPT !.refcount[s.hash] = @ - 1]

\* Playlist._remove_refcount: one reference less; at zero the blob is
\* unlinked and the map entry deleted.
RemoveRefcount(P, s) ==
    LET newrefcount == P.refcount[s.hash] - 1 IN
    IF newrefcount = 0
    THEN [P EXCEPT !.files = @ \ {s.hash},
                   !.refcount = [h \in (DOMAIN @) \ {s.hash} |-> @[h]]]
    ELSE [P EXCEPT !.refcount[s.hash] = newrefcount]

\* Variants of ToRemove: one that ignores the cursor, one that leaves one
\* slot less than the capacity.
ToRemoveIgnoringCursor(cur, len) == Max(0, len - PlaylistSize)
ToRemoveOneMore(cur, len) == Min(cur, Max(0, len - PlaylistSize + 1))

\* The number of songs _remove_songs pops.
ToRemove(cur, len) == Min(cur, Max(0, len - PlaylistSize))

\* The loop of _remove_songs: popleft n times, releasing each song.
RECURSIVE PopLeft(_, _)
PopLeft(P, n) ==
    IF n = 0 THEN P
    ELSE PopLeft([RemoveRefcount(P, Head(P.queue)) EXCEPT !.queue = Tail(@)],
                 n - 1)

\* Playlist._remove_songs.
RemoveSongs(P) ==
    LET to_remove == ToRemove(P.current, Len(P.queue)) IN
    [PopLeft(P, to_remove) EXCEPT !.current = @ - to_remove]

\* A variant of AddRefcount that saves the blob on every enqueue.
AddRefcountSaving(P, h) ==
    [P EXCEPT !.files = @ \cup {h}, !.wrote = TRUE,
              !.refcount = [x \in (DOMAIN @) \cup {h} |->
                              IF x \in DOMAIN @
                              THEN @[x] + (IF x = h THEN 1 ELSE 0) ELSE 1]]

\* The refcount update of Playlist.enqueue: a known hash is counted once
\* more, an unknown one is saved to disk and counted 1.
AddRefcount(P, h) ==
    IF h \in DOMAIN P.refcount
    THEN [P EXCEPT !.refcount[h] = @ + 1]
    ELSE [P EXCEPT !.files = @ \cup {h}, !.wrote = TRUE,
                   !.refcount = [x \in (DOMAIN @) \cup {h} |->
                                   IF x = h THEN 1 ELSE @[x]]]

\* Playlist.enqueue of the new Song object s.
PlaylistEnqueue(P, s) ==
    RemoveSongs([AddRefcount(P, s.hash) EXCEPT !.queue = Append(@, s)])

\* A variant of PlaylistNext that goes back to the first slot after the last.
PlaylistNextWrapping(P) ==
    IF P.queue = << >>
    THEN [err |-> "no more songs", pl |-> P]
    ELSE [err |-> "",
          pl |-> RemoveSongs([P EXCEPT !.current =
                                 (@ + 1) % Len(P.queue)])]

\* A variant of PlaylistNext that moves the cursor and evicts nothing.
PlaylistNextKeeping(P) ==
    LET newindex == P.current + 1 IN
    IF newindex > Len(P.queue) - 1
    THEN [err |-> "no more songs", pl |-> P]
    ELSE [err |-> "", pl |-> [P EXCEPT !.current = newindex]]

\* Playlist.next: [err, pl]; err is "" or the IndexError's message.
PlaylistNext(P) ==
    LET newindex == P.current + 1 IN
    IF newindex > Len(P.queue) - 1
    THEN [err |-> "no more songs", pl |-> P]
    ELSE [err |-> "", pl |-> RemoveSongs([P EXCEPT !.current = newindex])]

\* A variant of PlaylistPrev that stays on the first slot instead of failing.
PlaylistPrevClamped(P) ==
    [err |-> "", pl |-> [P EXCEPT !.current = Max(@ - 1, 0)]]

\* Playlist.prev.
PlaylistPrev(P) ==
    LET newindex == P.current - 1 IN
    IF newindex < 0
    THEN [err |-> "no more songs", pl |-> P]
    ELSE [err |-> "", pl |-> [P EXCEPT !.current = newindex]]

\* A variant of AdjustCurrent without the final clamp.
AdjustCurrentUnclamped(cur, index, len) ==
    IF index < cur THEN cur - 1 ELSE cur

\* A variant of AdjustCurrent that moves on when the slot removed is the
\* current one.
AdjustCurrentAdvancing(cur, index, len) ==
    LET c == IF index < cur THEN cur - 1
             ELSE IF index = cur THEN cur + 1 ELSE cur IN
    Max(Min(c, len - 1), 0)

\* The cursor after Playlist.remove deleted index from a queue now of
\* length len.
AdjustCurrent(cur, index, len) ==
    LET c == IF index < cur THEN cur - 1 ELSE cur IN
    Max(Min(c, len - 1), 0)

\* The queue without its element at the 0-based index.
DelAt(q, index) ==
    [k \in 1..(Len(q) - 1) |-> IF k <= index THEN q[k] ELSE q[k + 1]]

\* A variant of PlaylistRemove that removes the last slot when the index is
\* past the end.
PlaylistRemoveClamping(P, index) ==
    IF P.queue = << >>
    THEN [err |-> "no more songs", pl |-> P]
    ELSE LET i == Min(index, Len(P.queue) - 1)
             s == P.queue[i + 1]
             Q == [RemoveRefcount(P, s) EXCEPT !.queue = DelAt(@, i)]
         IN [err |-> "",
             pl |-> [Q EXCEPT !.current = AdjustCurrent(@, i, Len(Q.queue))]]

\* Playlist.remove, for the non-negative indices MusicServer.remove passes.
PlaylistRemove(P, index) ==
    IF index > Len(P.queue) - 1
    THEN [err |-> "no more songs", pl |-> P]
    ELSE LET s == P.queue[index + 1]
             Q == [RemoveRefcount(P, s) EXCEPT !.queue = DelAt(@, index)]
         IN [err |-> "",
             pl |-> [Q EXCEPT !.current =
                        AdjustCurrent(@, index, Len(Q.queue))]]

\* A variant of PlaylistClear that leaves the blobs in the directory.
PlaylistClearKeepingFiles(P) ==
    [P EXCEPT !.queue = << >>, !.refcount = << >>, !.current = 0]

\* Playlist.clear: queue and map emptied, every file of the directory
\* unlinked, cursor back to 0.
PlaylistClear(P) ==
    [P EXCEPT !.queue = << >>, !.refcount = << >>, !.files = {},
              !.current = 0]

\* ---------------------------------------------------- Player and pipeline
\* The pipeline's states in GStreamer's order; a state change passes through
\* every state in between and posts one STATE_CHANGED message per step.
GstStates == <<"NULL", "READY", "PAUSED", "PLAYING">>
Rank(s) == IF s = "NULL" THEN 1 ELSE IF s = "READY" THEN 2
           ELSE IF s = "PAUSED" THEN 3 ELSE 4

\* Player._STATES: the pipeline state as the Player reports it.
STATES(s) == IF s = "PLAYING" THEN "play"
             ELSE IF s = "PAUSED" THEN "pause"
             ELSE "stop"

\* Messages: the pipeline's own state change, one of an element inside it,
\* end of stream (SEGMENT_DONE, handled like it, is never posted: no seek of
\* the Player asks for a segment), and an error.
StateChanged(new) == [type |-> "STATE_CHANGED", src |-> "pipeline", new |-> new]
ChildStateChanged(new) == [type |-> "STATE_CHANGED", src |-> "child", new |-> new]
Eos == [type |-> "EOS", src |-> "pipeline", new |-> ""]
Error == [type |-> "ERROR", src |-> "child", new |-> ""]

\* The Player's _song and its pipeline as a value; reqs logs the calls a
\* handler made on the Player ("stop", "load", "play", "pause").
PE == [song |-> song, engState |-> engState, engTarget |-> engTarget,
       engUri |-> engUri, engLoaded |-> engLoaded, engEos |-> engEos,
       bus |-> bus, reqs |-> << >>]

\* One step of the pipeline from its state to the adjacent state new: the
\* message is posted; at READY and below the medium is closed, and going up
\* from READY opens the blob the uri names.
EngineMove(M, new) ==
    [M EXCEPT !.engState = new,
              !.bus = Append(@, StateChanged(new)),
              !.engLoaded = IF Rank(new) <= Rank("READY") THEN 0
                            ELSE IF M.engState = "READY" THEN M.engUri
                            ELSE @,
              !.engEos = IF Rank(new) <= Rank("READY") THEN FALSE ELSE @]

\* pipeline.set_state(target): a change to a lower state is carried out
\* within the call, step by step; a change to a higher state is carried out
\* by the pipeline afterwards (EngineStep).
RECURSIVE SetState(_, _)
SetState(M, target) ==
    IF Rank(target) < Rank(M.engState)
    THEN SetState(EngineMove(M, GstStates[Rank(M.engState) - 1]), target)
    ELSE [M EXCEPT !.engTarget = target]

\* Player.stop.
PlayerStop(M) ==
    [SetState(M, "READY") EXCEPT !.reqs = Append(@, "stop")]

\* A variant of PlayerPlay that never sets the uri.
PlayerPlayNoLoad(M, s) ==
    [SetState(M, "PLAYING") EXCEPT !.reqs = Append(@, "play")]

\* A variant of PlayerPlay that sets the uri whatever Song it already holds.
PlayerPlayAlwaysLoad(M, s) ==
    LET L == [M EXCEPT !.song = s, !.engUri = s.hash,
                       !.reqs = Append(@, "load")]
    IN [SetState(L, "PLAYING") EXCEPT !.reqs = Append(@, "play")]

\* Player.play(s): the uri is set only when s is not the Song already held.
PlayerPlay(M, s) ==
    LET L == IF M.song # s
             THEN [M EXCEPT !.song = s, !.engUri = s.hash,
                            !.reqs = Append(@, "load")]
             ELSE M
    IN [SetState(L, "PLAYING") EXCEPT !.reqs = Append(@, "play")]

\* Player.pause, once the state check has passed.
PlayerPause(M) ==
    [SetState(M, "PAUSED") EXCEPT !.reqs = Append(@, "pause")]

\* ------------------------------------------------------------ bookkeeping
InQueue(q, i) == \E k \in 1..Len(q) : q[k].id = i
PosOf(q, i) == CHOOSE k \in 1..Len(q) : q[k].id = i

\* The Song s under the names of the Songs of queue q.
Renamed(q, s) ==
    IF s = NoSong THEN NoSong
    ELSE IF InQueue(q, s.id) THEN [s EXCEPT !.id = PosOf(q, s.id)]
    ELSE [s EXCEPT !.id = Detached]

\* The state after a handler that left the Playlist as P, the Player's song
\* and pipeline as M and the durations as d: every Song is named again by its
\* place, and a Song referenced by nothing is gone.
Commit(P, M, d) ==
    /\ queue' = [k \in 1..Len(P.queue) |-> [P.queue[k] EXCEPT !.id = k]]
    /\ refcount' = P.refcount
    /\ files' = P.files
    /\ current' = P.current
    /\ song' = Renamed(P.queue, M.song)
    /\ duration' =
          [i \in SongIds |->
              IF i <= Len(P.queue) THEN d[P.queue[i].id]
              ELSE IF i = Detached /\ Renamed(P.queue, M.song).id = Detached
                   THEN d[M.song.id]
              ELSE None]
    /\ engState' = M.engState
    /\ engTarget' = M.engTarget
    /\ engUri' = M.engUri
    /\ engLoaded' = M.engLoaded
    /\ engEos' = M.engEos
    /\ bus' = M.bus

\* The name of a Song object under construction: none of those in use.
NewId == Len(queue) + 1

\* What a handler did: the operation, its argument, the Player state and the
\* cursor it started with, "ok" or the message of the error it raised, the
\* calls made on the Player, and whether a blob was written.
Op(op, arg, result, reqs, wrote) ==
    [op |-> op, arg |-> arg, was |-> state, cur |-> CurrentIndex(PL),
     result |-> result, reqs |-> reqs, wrote |-> wrote, target |-> None]

\* The last step ran no handler of the MusicServer.
NoOp == [op |-> "none", arg |-> None, was |-> "stop", cur |-> None,
         result |-> "ok", reqs |-> << >>, wrote |-> FALSE, target |-> None]

Result(err) == IF err = "" THEN "ok" ELSE err

\* A command handler runs only while Player.run is not running, and while
\* the IOLoop serves requests.
CanRun == pollpc # "run" /\ ioloop = "running"

\* ------------------------------------------------------------- MusicServer
\* EnqueueMethod.execute: MusicServer.enqueue(title, data), data hashing
\* to h.
EnqueueMethod(h) ==
    /\ CanRun
    /\ LET s == [id |-> NewId, hash |-> h]
           P == PlaylistEnqueue(PL, s)
       IN /\ Commit(P, PE, [duration EXCEPT ![s.id] = None])
          /\ lastOp' = Op("enqueue", h, "ok", << >>, P.wrote)
    /\ UNCHANGED <<state, position, pollpc, appVars>>

\* ClearMethod.execute: MusicServer.clear.
ClearMethod ==
    /\ CanRun
    /\ LET M == PlayerStop(PE)
           P == PlaylistClear(PL)
       IN /\ Commit(P, M, duration)
          /\ lastOp' = Op("clear", None, "ok", M.reqs, FALSE)
    /\ UNCHANGED <<state, position, pollpc, appVars>>

\* Variants of Navigate: one that stops the Player only once the cursor has
\* moved, one that resumes whenever the Player was not stopped.
NavigateMoveFirst(R, M0) ==
    IF R.err # ""
    THEN [err |-> R.err, pl |-> R.pl, pe |-> M0]
    ELSE LET M1 == PlayerStop(M0) IN
         [err |-> "", pl |-> R.pl,
          pe |-> IF state = "play" THEN PlayerPlay(M1, Current(R.pl)) ELSE M1]
NavigateResumePaused(R, M0) ==
    LET M1 == PlayerStop(M0) IN
    IF R.err # ""
    THEN [err |-> R.err, pl |-> R.pl, pe |-> M1]
    ELSE [err |-> "", pl |-> R.pl,
          pe |-> IF state # "stop" THEN PlayerPlay(M1, Current(R.pl)) ELSE M1]

\* The body shared by MusicServer.next and MusicServer.prev: the state is
\* remembered, the Player stopped, the cursor moved (the IndexError leaves
\* the handler here), and play requested if the state was 'play'.
\* Returns [err, pl, pe].
Navigate(R, M0) ==
    LET M1 == PlayerStop(M0) IN
    IF R.err # ""
    THEN [err |-> R.err, pl |-> R.pl, pe |-> M1]
    ELSE [err |-> "", pl |-> R.pl,
          pe |-> IF state = "play" THEN PlayerPlay(M1, Current(R.pl)) ELSE M1]

\* A variant of ServerNext that never plays the song it moved to.
ServerNextSilent(M0) ==
    LET R == PlaylistNext(PL)
    IN [err |-> R.err, pl |-> R.pl, pe |-> PlayerStop(M0)]

\* MusicServer.next as a value: [err, pl, pe], from the Player M0.
ServerNext(M0) == Navigate(PlaylistNext(PL), M0)

\* MusicServer.prev as a value.
ServerPrev(M0) == Navigate(PlaylistPrev(PL), M0)

\* The outcome [err, pl, pe] of a handler, computed once, becomes the next
\* state.
Apply(op, arg, outcome) ==
    \E R \in {outcome} :
        /\ Commit(R.pl, R.pe, duration)
        /\ lastOp' = Op(op, arg, Result(R.err), R.pe.reqs, FALSE)
        /\ UNCHANGED <<state, position>>

\* NextMethod.execute.
NextMethod ==
    /\ CanRun
    /\ Apply("next", None, ServerNext(PE))
    /\ UNCHANGED <<pollpc, appVars>>

\* PrevMethod.execute.
PrevMethod ==
    /\ CanRun
    /\ Apply("prev", None, ServerPrev(PE))
    /\ UNCHANGED <<pollpc, appVars>>

\* Variants of ServerRemove: one that plays whatever current returns, one
\* that treats every index as the current one.
ServerRemoveNoSongCheck(index) ==
    IF index < 0
    THEN [err |-> "index must be non-negative", pl |-> PL, pe |-> PE]
    ELSE IF index = CurrentIndex(PL)
    THEN LET M1 == PlayerStop(PE)
             R == PlaylistRemove(PL, index)
         IN IF R.err # ""
            THEN [err |-> R.err, pl |-> R.pl, pe |-> M1]
            ELSE [err |-> "", pl |-> R.pl,
                  pe |-> IF state = "play"
                         THEN PlayerPlay(M1, Current(R.pl)) ELSE M1]
    ELSE LET R == PlaylistRemove(PL, index)
         IN [err |-> R.err, pl |-> R.pl, pe |-> PE]
ServerRemoveAlwaysStopping(index) ==
    IF index < 0
    THEN [err |-> "index must be non-negative", pl |-> PL, pe |-> PE]
    ELSE LET M1 == PlayerStop(PE)
             R == PlaylistRemove(PL, index)
         IN IF R.err # ""
            THEN [err |-> R.err, pl |-> R.pl, pe |-> M1]
            ELSE [err |-> "", pl |-> R.pl,
                  pe |-> IF state = "play" /\ Current(R.pl) # NoSong
                         THEN PlayerPlay(M1, Current(R.pl)) ELSE M1]

\* MusicServer.remove(index) as a value: [err, pl, pe].
ServerRemove(index) ==
    IF index < 0
    THEN [err |-> "index must be non-negative", pl |-> PL, pe |-> PE]
    ELSE IF index = CurrentIndex(PL)
    THEN LET M1 == PlayerStop(PE)
             R == PlaylistRemove(PL, index)
             s == Current(R.pl)
         IN IF R.err # ""
            THEN [err |-> R.err, pl |-> R.pl, pe |-> M1]
            ELSE [err |-> "", pl |-> R.pl,
                  pe |-> IF state = "play" /\ s # NoSong
                         THEN PlayerPlay(M1, s) ELSE M1]
    ELSE LET R == PlaylistRemove(PL, index)
         IN [err |-> R.err, pl |-> R.pl, pe |-> PE]

\* RemoveMethod.execute(index).
RemoveMethod(index) ==
    /\ CanRun
    /\ Apply("remove", index, ServerRemove(index))
    /\ UNCHANGED <<pollpc, appVars>>

\* A variant of PlayMethod that reports 'play' as soon as it has asked for
\* it.
PlayMethodEager ==
    /\ CanRun
    /\ LET s == Current(PL) IN
       IF s # NoSong
       THEN LET M == PlayerPlay(PE, s) IN
            /\ Commit(PL, M, duration)
            /\ lastOp' = Op("play", None, "ok", M.reqs, FALSE)
            /\ state' = "play"
       ELSE /\ lastOp' = Op("play", None, "no songs to play", << >>, FALSE)
            /\ UNCHANGED <<playlistVars, song, engineVars, duration, state>>
    /\ UNCHANGED <<position, pollpc, appVars>>

\* PlayMethod.execute: MusicServer.play.
PlayMethod ==
    /\ CanRun
    /\ LET s == Current(PL) IN
       IF s # NoSong
       THEN LET M == PlayerPlay(PE, s) IN
            /\ Commit(PL, M, duration)
            /\ lastOp' = Op("play", None, "ok", M.reqs, FALSE)
       ELSE /\ lastOp' = Op("play", None, "no songs to play", << >>, FALSE)
            /\ UNCHANGED <<playlistVars, song, engineVars, duration>>
    /\ UNCHANGED <<state, position, pollpc, appVars>>

\* A variant of PauseMethod without the state check of Player.pause.
PauseMethodUnguarded ==
    /\ CanRun
    /\ LET M == PlayerPause(PE) IN
       /\ Commit(PL, M, duration)
       /\ lastOp' = Op("pause", None, "ok", M.reqs, FALSE)
    /\ UNCHANGED <<state, position, pollpc, appVars>>

\* PauseMethod.execute: MusicServer.pause, Player.pause.
PauseMethod ==
    /\ CanRun
    /\ IF state = "play"
       THEN LET M == PlayerPause(PE) IN
            /\ Commit(PL, M, duration)
            /\ lastOp' = Op("pause", None, "ok", M.reqs, FALSE)
       ELSE /\ lastOp' = Op("pause", None, "player not in PLAY state",
                            << >>, FALSE)
            /\ UNCHANGED <<playlistVars, duration, song, engineVars>>
    /\ UNCHANGED <<state, position, pollpc, appVars>>

\* A variant of StopMethod that stops the Player whatever its state.
StopMethodUnguarded ==
    /\ CanRun
    /\ LET M == PlayerStop(PE) IN
       /\ Commit(PL, M, duration)
       /\ lastOp' = Op("stop", None, "ok", M.reqs, FALSE)
    /\ UNCHANGED <<state, position, pollpc, appVars>>

\* StopMethod.execute: MusicServer.stop.
StopMethod ==
    /\ CanRun
    /\ IF state = "stop"
       THEN /\ lastOp' = Op("stop", None, "already stopped", << >>, FALSE)
            /\ UNCHANGED <<playlistVars, duration, song, engineVars>>
       ELSE LET M == PlayerStop(PE) IN
            /\ Commit(PL, M, duration)
            /\ lastOp' = Op("stop", None, "ok", M.reqs, FALSE)
    /\ UNCHANGED <<state, position, pollpc, appVars>>

\* The condition of Player.seek: not stopped, and the duration of the song
\* held is known.
CanSeek == state # "stop" /\ duration[song.id] # None

\* A variant of CanSkip that does not ask for a position.
CanSkipWithoutPosition == CanSeek

\* The condition of Player.skipbackwards and Player.skipforwards: that of
\* seek, and a position has been cached.
CanSkip == CanSeek /\ position # None

\* A variant of PlayerSeek that checks the state before the range.
PlayerSeekStateFirst(f) ==
    IF ~CanSeek
    THEN [err |-> "player stopped", target |-> None]
    ELSE IF ~(0 <= f /\ f <= FractionScale)
    THEN [err |-> "wrong position value", target |-> None]
    ELSE [err |-> "", target |-> (duration[song.id] * f) \div FractionScale]

\* Player.seek(f / FractionScale): [err, target], target the seconds passed
\* to seek_simple.
PlayerSeek(f) ==
    IF ~(0 <= f /\ f <= FractionScale)
    THEN [err |-> "wrong position value", target |-> None]
    ELSE IF CanSeek
    THEN [err |-> "", target |-> (duration[song.id] * f) \div FractionScale]
    ELSE [err |-> "player stopped", target |-> None]

\* Player.skipbackwards.
PlayerSkipbackwards ==
    IF CanSkip
    THEN [err |-> "", target |-> Max(position - SkipSeconds, 0)]
    ELSE [err |-> "player stopped", target |-> None]

\* Player.skipforwards.
PlayerSkipforwards ==
    IF CanSkip
    THEN [err |-> "", target |-> Min(position + SkipSeconds, duration[song.id])]
    ELSE [err |-> "player stopped", target |-> None]

\* A handler that only seeks: R is [err, target]; the seek is sent to the
\* pipeline, whose answer is not looked at, and nothing of the Player or
\* the Playlist is written.
Seeking(op, arg, R) ==
    /\ CanRun
    /\ lastOp' = [Op(op, arg, Result(R.err),
                     IF R.err = "" THEN <<"seek">> ELSE << >>, FALSE)
                    EXCEPT !.target = R.target]
    /\ UNCHANGED <<playlistVars, duration, playerVars, engineVars, pollpc,
                   appVars>>

\* SeekMethod.execute(position): MusicServer.seek.
SeekMethod(f) == Seeking("seek", f, PlayerSeek(f))

\* SkipbackwardsMethod.execute: MusicServer.skipbackwards.
SkipbackwardsMethod == Seeking("skipbackwards", None, PlayerSkipbackwards)

\* SkipforwardsMethod.execute: MusicServer.skipforwards.
SkipforwardsMethod == Seeking("skipforwards", None, PlayerSkipforwards)

\* A variant of PlayerSetvolume that refuses while the Player is stopped, as
\* seek does.
PlayerSetvolumeGated(v) ==
    IF ~(0 <= v /\ v <= FractionScale)
    THEN [err |-> "wrong volume", volume |-> volume]
    ELSE IF state # "stop"
    THEN [err |-> "", volume |-> v]
    ELSE [err |-> "player stopped", volume |-> volume]

\* Player.setvolume(v / FractionScale): [err, volume], volume the value of
\* the pipeline's property afterwards.
PlayerSetvolume(v) ==
    IF ~(0 <= v /\ v <= FractionScale)
    THEN [err |-> "wrong volume", volume |-> volume]
    ELSE [err |-> "", volume |-> v]

\* The volumes a client passes to setvolume, in 1/FractionScale: the two
\* ends of the range and the values next to them outside it.
Volumes == {-1, 0, FractionScale, FractionScale + 1}

\* SetvolumeMethod.execute(volume): MusicServer.setvolume.
SetvolumeMethod(v) ==
    /\ CanRun
    /\ LET R == PlayerSetvolume(v) IN
       /\ volume' = R.volume
       /\ lastOp' = Op("setvolume", v, Result(R.err),
                       IF R.err = "" THEN <<"volume">> ELSE << >>, FALSE)
    /\ UNCHANGED <<playlistVars, duration, playerVars, engineVars, pollpc,
                   closing, ioloop>>

\* Player.status: the volume it reports is read from the pipeline.
StatusVolume == volume

\* ------------------------------------------------------------- Player.run
\* Player.run is at its loop test: its sleep may be over, or the last
\* iteration popped a message and did not sleep.  A sleep ends only while the
\* IOLoop runs.
AtLoopTest == pollpc \in {"sleep", "run"} /\ ioloop = "running"

\* The loop test passes: another iteration.
Polling == AtLoopTest /\ ~closing

\* A variant of HandleMessage that keeps the position when the pipeline is
\* seen to stop.
HandleMessageKeepingPosition(msg, B) ==
    CASE msg.type = "ERROR" ->
           /\ bus' = B
           /\ lastOp' = Op("playererror", None, "ok", << >>, FALSE)
           /\ UNCHANGED <<playlistVars, duration, playerVars, engState,
                          engTarget, engUri, engLoaded, engEos>>
      [] msg.type = "EOS" ->
           Apply("playereos", None, ServerNext([PE EXCEPT !.bus = B]))
      [] msg.type = "STATE_CHANGED" ->
           /\ IF msg.src = "pipeline"
              THEN /\ state' = STATES(msg.new)
                   /\ position' = position
              ELSE UNCHANGED <<state, position>>
           /\ bus' = B
           /\ lastOp' = NoOp
           /\ UNCHANGED <<playlistVars, duration, song, engState, engTarget,
                          engUri, engLoaded, engEos>>

\* A variant of HandleMessage that treats an error as the end of the stream.
HandleMessageErrorAdvances(msg, B) ==
    CASE msg.type \in {"ERROR", "EOS"} ->
           Apply(IF msg.type = "ERROR" THEN "playererror" ELSE "playereos",
                 None, ServerNext([PE EXCEPT !.bus = B]))
      [] msg.type = "STATE_CHANGED" ->
           /\ IF msg.src = "pipeline"
              THEN /\ state' = STATES(msg.new)
                   /\ position' = IF STATES(msg.new) = "stop" THEN None
                                  ELSE position
              ELSE UNCHANGED <<state, position>>
           /\ bus' = B
           /\ lastOp' = NoOp
           /\ UNCHANGED <<playlistVars, duration, song, engState, engTarget,
                          engUri, engLoaded, engEos>>

\* Player._handle_message(msg): what it does to the Player and, through the
\* listener, to the Playlist.  B is the bus left after the pop.
\*   ERROR: MusicServer.playererror only logs.
\*   EOS: MusicServer.playereos runs next and swallows its IndexError, whose
\*        message is kept in lastOp.result.
\*   STATE_CHANGED: the Player's state follows the pipeline's own changes.
HandleMessage(msg, B) ==
    CASE msg.type = "ERROR" ->
           /\ bus' = B
           /\ lastOp' = Op("playererror", None, "ok", << >>, FALSE)
           /\ UNCHANGED <<playlistVars, duration, playerVars, engState,
                          engTarget, engUri, engLoaded, engEos>>
      [] msg.type = "EOS" ->
           Apply("playereos", None, ServerNext([PE EXCEPT !.bus = B]))
      [] msg.type = "STATE_CHANGED" ->
           /\ IF msg.src = "pipeline"
              THEN /\ state' = STATES(msg.new)
                   /\ position' = IF STATES(msg.new) = "stop" THEN None
                                  ELSE position
              ELSE UNCHANGED <<state, position>>
           /\ bus' = B
           /\ lastOp' = NoOp
           /\ UNCHANGED <<playlistVars, duration, song, engState, engTarget,
                          engUri, engLoaded, engEos>>

\* A variant of PollMessage that sleeps after the message has been handled.
PollMessageSleeping ==
    /\ Polling
    /\ bus # << >>
    /\ HandleMessage(Head(bus), Tail(bus))
    /\ pollpc' = "sleep"
    /\ UNCHANGED appVars

\* An iteration of Player.run that pops a message of the bus: it is handled
\* and the loop goes on without sleeping.
PollMessage ==
    /\ Polling
    /\ bus # << >>
    /\ HandleMessage(Head(bus), Tail(bus))
    /\ pollpc' = "run"
    /\ UNCHANGED appVars

\* An iteration of Player.run that pops a message without effect on the
\* Player: an error, or the state change of an element inside the pipeline.
\* Such a message is modelled in the iteration that pops it, whatever else
\* the bus holds; its place in the bus changes nothing but that iteration.
PollNoise ==
    /\ Polling
    /\ \E msg \in {Error, ChildStateChanged("PAUSED")} :
           HandleMessage(msg, bus)
    /\ pollpc' = "run"
    /\ UNCHANGED appVars

\* A variant of UpdateSongAttributes that queries the duration whether or
\* not it is known, and stores what a failed query returns.
UpdateSongAttributesRequerying ==
    \E dres \in BOOLEAN, pres \in BOOLEAN, p \in Positions :
        /\ duration' =
              [duration EXCEPT ![song.id] =
                  IF dres /\ engLoaded # 0 THEN MediaDuration(engLoaded)
                  ELSE None]
        /\ position' =
              IF pres /\ engLoaded # 0 /\ p <= MediaDuration(engLoaded)
              THEN p ELSE position

\* Player._update_song_attributes: the duration is queried while it is None,
\* the position always; a query succeeds only on an opened medium, and may
\* fail on one.
UpdateSongAttributes ==
    \E dres \in BOOLEAN, pres \in BOOLEAN, p \in Positions :
        /\ duration' =
              IF duration[song.id] = None /\ dres /\ engLoaded # 0
              THEN [duration EXCEPT ![song.id] = MediaDuration(engLoaded)]
              ELSE duration
        /\ position' =
              IF pres /\ engLoaded # 0 /\ p <= MediaDuration(engLoaded)
              THEN p ELSE position

\* An iteration of Player.run that finds the bus empty: the attributes are
\* refreshed or the position cleared, and the loop sleeps.  With no song
\* held, _update_song_attributes raises and the loop is over.
PollIdle ==
    /\ Polling
    /\ bus = << >>
    /\ IF state # "stop"
       THEN IF song = NoSong
            THEN /\ pollpc' = "crashed"
                 /\ UNCHANGED <<duration, position>>
            ELSE /\ UpdateSongAttributes
                 /\ pollpc' = "sleep"
       ELSE /\ position' = None
            /\ pollpc' = "sleep"
            /\ UNCHANGED duration
    /\ UNCHANGED <<playlistVars, state, song, engineVars, appVars>>
    /\ lastOp' = NoOp

\* A variant of PollClose that leaves the loop without releasing the
\* pipeline.
PollCloseNoRelease ==
    /\ AtLoopTest
    /\ closing
    /\ pollpc' = "done"
    /\ lastOp' = Op("run", None, "ok", << >>, FALSE)
    /\ UNCHANGED <<playlistVars, duration, playerVars, engineVars, appVars>>

\* The loop test of Player.run fails: the pipeline is set to NULL and run
\* returns.
PollClose ==
    /\ AtLoopTest
    /\ closing
    /\ LET M == [SetState(PE, "NULL") EXCEPT !.reqs = Append(@, "release")] IN
       /\ Commit(PL, M, duration)
       /\ lastOp' = Op("run", None, "ok", M.reqs, FALSE)
    /\ pollpc' = "done"
    /\ UNCHANGED <<state, position, appVars>>

\* ------------------------------------------------------------- Application
\* Application.stop, called by the handler of SIGINT and SIGTERM between any
\* two steps: WebServer.stop and MusicServer.close, Player.close; each only
\* sets a flag.
ApplicationStop ==
    /\ ioloop = "running"
    /\ closing' = TRUE
    /\ lastOp' = Op("close", None, "ok", << >>, FALSE)
    /\ UNCHANGED <<playlistVars, duration, playerVars, engineVars, pollpc,
                   volume, ioloop>>

\* WebServer._stop_callback, run by the IOLoop every second: once the flag is
\* set the HTTP server stops listening and the IOLoop is stopped.  With the
\* flag not set it does nothing.
StopCallback ==
    /\ ioloop = "running"
    /\ pollpc # "run"
    /\ closing
    /\ ioloop' = "stopped"
    /\ lastOp' = NoOp
    /\ UNCHANGED <<playlistVars, duration, playerVars, engineVars, pollpc,
                   volume, closing>>

\* A variant of EngineStep in which the pipeline never gets beyond PAUSED.
EngineStepStalling ==
    /\ ioloop = "running"
    /\ Rank(engState) < Rank(engTarget)
    /\ Rank(engState) < Rank("PAUSED")
    /\ engState = "READY" => engUri \in files
    /\ Len(bus) < MaxBus
    /\ LET M == EngineMove(PE, GstStates[Rank(engState) + 1]) IN
       /\ Commit(PL, M, duration)
    /\ UNCHANGED <<state, position, pollpc, appVars>>
    /\ lastOp' = NoOp

\* ---------------------------------------------------------------- pipeline
\* The pipeline carries out one step of a requested change to a higher
\* state.  Leaving READY it opens the blob named by the uri, which has to
\* exist.  The process, and the pipeline with it, ends once the IOLoop has
\* stopped.
EngineStep ==
    /\ ioloop = "running"
    /\ Rank(engState) < Rank(engTarget)
    /\ engState = "READY" => engUri \in files
    /\ Len(bus) < MaxBus
    /\ LET M == EngineMove(PE, GstStates[Rank(engState) + 1]) IN
       /\ Commit(PL, M, duration)
    /\ UNCHANGED <<state, position, pollpc, appVars>>
    /\ lastOp' = NoOp

\* The playing stream reaches its end: EOS is posted once.
EngineEos ==
    /\ ioloop = "running"
    /\ engState = "PLAYING"
    /\ ~engEos
    /\ Len(bus) < MaxBus
    /\ engEos' = TRUE
    /\ bus' = Append(bus, Eos)
    /\ UNCHANGED <<playlistVars, duration, playerVars, engState, engTarget,
                   engUri, engLoaded, pollpc, appVars>>
    /\ lastOp' = NoOp

\* ------------------------------------------------------------ specification
Init ==
    /\ queue = << >>
    /\ refcount = << >>
    /\ files = {}
    /\ current = 0
    /\ duration = [i \in SongIds |-> None]
    /\ state = "stop"
    /\ song = NoSong
    /\ position = None
    /\ engState = "NULL"
    /\ engTarget = "NULL"
    /\ engUri = 0
    /\ engLoaded = 0
    /\ engEos = FALSE
    /\ bus = << >>
    /\ pollpc = "sleep"
    /\ volume = FractionScale
    /\ closing = FALSE
    /\ ioloop = "running"
    /\ lastOp = NoOp

\* The indices a client passes to remove: a negative one, every index of the
\* queue, and one past its end.
Indices == (-1)..Len(queue)

Next ==
    \/ \E h \in Hashes : Len(queue) < MaxQueue /\ EnqueueMethod(h)
    \/ ClearMethod
    \/ NextMethod
    \/ PrevMethod
    \/ \E index \in Indices : RemoveMethod(index)
    \/ PlayMethod
    \/ PauseMethod
    \/ StopMethod
    \/ \E f \in Fractions : SeekMethod(f)
    \/ SkipbackwardsMethod
    \/ SkipforwardsMethod
    \/ \E v \in Volumes : SetvolumeMethod(v)
    \/ PollMessage
    \/ PollNoise
    \/ PollIdle
    \/ PollClose
    \/ ApplicationStop
    \/ StopCallback
    \/ EngineStep
    \/ EngineEos

Spec == Init /\ [][Next]_vars

\* Playback: the commands that act on the Playlist and the Player, the loop
\* and the pipeline, while the volume is left alone and the Application is
\* not being stopped.
NextPlayback ==
    \/ \E h \in Hashes : Len(queue) < MaxQueue /\ EnqueueMethod(h)
    \/ ClearMethod
    \/ NextMethod
    \/ PrevMethod
    \/ \E index \in Indices : RemoveMethod(index)
    \/ PlayMethod
    \/ PauseMethod
    \/ StopMethod
    \/ \E f \in Fractions : SeekMethod(f)
    \/ SkipbackwardsMethod
    \/ SkipforwardsMethod
    \/ PollMessage
    \/ PollNoise
    \/ PollIdle
    \/ EngineStep
    \/ EngineEos

SpecPlayback == Init /\ [][NextPlayback]_vars

\* Every command, the loop and the pipeline, while the Application is not
\* being stopped.
NextCommands ==
    \/ \E h \in Hashes : Len(queue) < MaxQueue /\ EnqueueMethod(h)
    \/ ClearMethod
    \/ NextMethod
    \/ PrevMethod
    \/ \E index \in Indices : RemoveMethod(index)
    \/ PlayMethod
    \/ PauseMethod
    \/ StopMethod
    \/ \E f \in Fractions : SeekMethod(f)
    \/ SkipbackwardsMethod
    \/ SkipforwardsMethod
    \/ \E v \in Volumes : SetvolumeMethod(v)
    \/ PollMessage
    \/ PollNoise
    \/ PollIdle
    \/ EngineStep
    \/ EngineEos

SpecCommands == Init /\ [][NextCommands]_vars

\* Playing and stopping under fair scheduling: Player.run is resumed by the
\* IOLoop every DEFAULT_EVENT_WAIT_TIME, so an iteration that can run does
\* run, and the pipeline carries out a state change it was asked for.
\* Commands and the end of a stream are under no such obligation.
NextFair ==
    \/ \E h \in Hashes : Len(queue) < PlaylistSize /\ EnqueueMethod(h)
    \/ PlayMethod
    \/ PauseMethod
    \/ StopMethod
    \/ PollMessage
    \/ PollNoise
    \/ PollIdle
    \/ EngineStep
    \/ EngineEos

SpecFair ==
    /\ Init
    /\ [][NextFair]_vars
    /\ WF_vars(PollMessage)
    /\ WF_vars(PollIdle)
    /\ WF_vars(EngineStep)

\* Stopping the Application: a few commands, the loop and the pipeline, and
\* Application.stop with what follows it.
NextShutdown ==
    \/ \E h \in Hashes : Len(queue) < PlaylistSize /\ EnqueueMethod(h)
    \/ PlayMethod
    \/ StopMethod
    \/ PollMessage
    \/ PollNoise
    \/ PollIdle
    \/ PollClose
    \/ ApplicationStop
    \/ StopCallback
    \/ EngineStep
    \/ EngineEos

SpecShutdown == Init /\ [][NextShutdown]_vars

\* The commands that act on the Playlist, issued while nothing is played:
\* what they do to the Playlist does not depend on the Player or the
\* pipeline, and playereos acts on the Playlist as the next command does.
NextPlaylist ==
    \/ \E h \in Hashes : Len(queue) < MaxQueue /\ EnqueueMethod(h)
    \/ ClearMethod
    \/ NextMethod
    \/ PrevMethod
    \/ \E index \in Indices : RemoveMethod(index)

SpecPlaylist == Init /\ [][NextPlaylist]_vars

\* ================================================================ properties
\* The number of slots of the queue q that hold the hash h.
Count(q, h) == Cardinality({k \in 1..Len(q) : q[k].hash = h})
\* The hashes the slots of the queue q hold.
HashesOf(q) == {q[k].hash : k \in 1..Len(q)}
\* The last step ran the handler op and it returned without an error.
Did(op) == lastOp.op = op /\ lastOp.result = "ok"

\* C1: after every operation, currentindex is None exactly when the queue is
\* empty, and otherwise the cursor satisfies 0 <= current <= len(queue) - 1.
C1_CursorInRange ==
    /\ CurrentIndex(PL) = None <=> queue = << >>
    /\ queue # << >> => CurrentIndex(PL) \in 0..(Len(queue) - 1)

\* The last slot was removed while it was the current one, and slots remain.
C1_Witness ==
    /\ Did("remove")
    /\ lastOp.arg = lastOp.cur
    /\ lastOp.arg = Len(queue)
    /\ queue # << >>

\* C2: for every hash, the refcount map holds the number of slots of the
\* queue with that hash, and has an entry only when that number is >= 1.
C2_RefcountCountsSlots ==
    /\ DOMAIN refcount = HashesOf(queue)
    /\ \A h \in DOMAIN refcount : refcount[h] = Count(queue, h) /\ refcount[h] >= 1

\* A remove left one hash counted once and took the last slot of another.
C2_Witness ==
    /\ Did("remove")
    /\ \E h \in Hashes : h \in DOMAIN refcount /\ refcount[h] = 1
    /\ \E h \in Hashes : h \notin DOMAIN refcount
    /\ Len(queue) = 1

\* C3: a blob exists in the song directory exactly while a slot references
\* its hash: enqueuing content whose blob is there writes no blob, removing
\* one of several slots with a hash leaves the blob, and removing the last
\* such slot deletes it within the same operation.
C3_BlobIffReferenced ==
    /\ [](files = HashesOf(queue))
    /\ [][/\ lastOp'.op = "enqueue" => (lastOp'.wrote <=> lastOp'.arg \notin files)
          /\ \A h \in Hashes :
                (lastOp'.op \in {"remove", "next", "enqueue", "clear"} /\ h \in files) =>
                    (h \in files' <=> Count(queue', h) >= 1)]_vars

\* Content already stored was enqueued again, and the slots holding it now
\* number two.
C3_Witness ==
    /\ Did("enqueue")
    /\ ~lastOp.wrote
    /\ Count(queue, lastOp.arg) = 2
    /\ lastOp.arg \in files

\* The step ran enqueue, or a next that moved the cursor: the operations
\* that end with _remove_songs.
Evicting == lastOp'.result = "ok" /\ lastOp'.op \in {"enqueue", "next", "playereos"}
\* The queue and the cursor of that step at the time _remove_songs starts.
QueueBeforeEviction ==
    IF lastOp'.op = "enqueue"
    THEN Append(queue, [id |-> NewId, hash |-> lastOp'.arg])
    ELSE queue
CursorBeforeEviction == IF lastOp'.op = "enqueue" THEN current ELSE current + 1
\* The duration attribute of the slots of that queue.
DurationBeforeEviction(j) == IF j <= Len(queue) THEN duration[j] ELSE None

\* C4: eviction removes only a prefix of slots strictly below the cursor: the
\* current slot and every slot after it are the same before and after, and
\* with the cursor at 0 enqueue removes nothing, however long the queue.
C4_EvictsOnlyBelowCursor ==
    [][Evicting =>
        LET q == QueueBeforeEviction
            c == CursorBeforeEviction
            k == Len(q) - Len(queue')
        IN /\ k \in 0..c
           /\ \A j \in (c + 1)..Len(q) :
                 /\ queue'[j - k].hash = q[j].hash
                 /\ duration'[j - k] = DurationBeforeEviction(j)
           /\ Current(PL').hash = q[c + 1].hash
           /\ c = 0 => Len(queue') = Len(q)]_vars

\* An enqueue with the cursor at 0 left the queue longer than the capacity.
C4_Witness ==
    /\ Did("enqueue")
    /\ lastOp.cur = 0
    /\ current = 0
    /\ Len(queue) > PlaylistSize

RECURSIVE AfterDrain(_, _)
AfterDrain(b, st) ==
    IF b = << >> THEN st
    ELSE AfterDrain(Tail(b),
                    IF Head(b).type = "STATE_CHANGED" /\ Head(b).src = "pipeline"
                    THEN STATES(Head(b).new) ELSE st)

\* The step ran the next or the prev command.
Navigated == lastOp'.op \in {"next", "prev"}
\* The cursor is where the command op has no slot to move to.
AtBoundary(op) ==
    IF op = "next" THEN queue = << >> \/ current = Len(queue) - 1
    ELSE current = 0
\* The calls a handler makes on the Player to play a song after a stop.
StopThenPlay == {<<"stop", "load", "play">>, <<"stop", "play">>}
\* The Player has been asked to play the current song of the Playlist.
PlayingCurrent ==
    /\ engTarget = "PLAYING"
    /\ song = Current(PL)
    /\ engUri = Current(PL).hash
\* The Player has been stopped: the pipeline is at READY or below and the
\* state reported once its messages are polled is 'stop'.
Stopped ==
    /\ engTarget = "READY"
    /\ Rank(engState) <= Rank("READY")
    /\ AfterDrain(bus, state) = "stop"

\* C6 as stated: next at the last slot (or on an empty playlist) and prev at
\* index 0 fail with 'no more songs' and leave the sequence, the cursor and
\* the playback state (the state reported and the pipeline's) as before.
C6_FailedMoveChangesNothing ==
    [][Navigated =>
        /\ lastOp'.result = "no more songs" <=> AtBoundary(lastOp'.op)
        /\ lastOp'.result = "no more songs" =>
              /\ queue' = queue /\ current' = current
              /\ state' = state
              /\ engState' = engState
              /\ AfterDrain(bus', state') = AfterDrain(bus, state)]_vars

\* C6: next at the last slot (or on an empty playlist) and prev at index 0
\* fail with 'no more songs' and leave the sequence, the cursor, the blobs
\* and the state reported at return as before; the Player has been stopped
\* first, so playback does not stay as it was: it ends stopped.
C6_FailedMoveStopsOnly ==
    [][Navigated =>
        /\ lastOp'.result = "no more songs" <=> AtBoundary(lastOp'.op)
        /\ lastOp'.result = "no more songs" =>
              /\ queue' = queue /\ current' = current
              /\ refcount' = refcount /\ files' = files
              /\ state' = state
              /\ song' = song
              /\ Stopped']_vars

\* A next at the last slot failed while the Player was paused, and the
\* pipeline is back at READY.
C6_Witness ==
    /\ lastOp.op = "next"
    /\ lastOp.result = "no more songs"
    /\ lastOp.was = "pause"
    /\ lastOp.cur = Len(queue) - 1
    /\ engState = "READY"
    /\ \E i \in 1..Len(bus) : bus[i] = StateChanged("READY")

\* C7: a next or prev at the boundary while the observed state is 'play'
\* requests stop from the Player before the move is attempted, then fails;
\* no play is requested, the cursor does not move, and once the pipeline's
\* state change has been polled the observed state is 'stop'.
C7_BoundaryMoveWhilePlaying ==
    [][(Navigated /\ AtBoundary(lastOp'.op) /\ state = "play") =>
        /\ lastOp'.result = "no more songs"
        /\ lastOp'.reqs = <<"stop">>
        /\ current' = current
        /\ Len(queue') = Len(queue)
        /\ Stopped']_vars

\* A prev at index 0 failed while the Player reported 'play' and the pipeline
\* was playing: the stop's state changes wait on the bus.
C7_Witness ==
    /\ lastOp.op = "prev"
    /\ lastOp.result = "no more songs"
    /\ lastOp.was = "play"
    /\ state = "play"
    /\ queue # << >>
    /\ \E i \in 1..Len(bus) : bus[i] = StateChanged("READY")

\* C8: a next or prev that moves the cursor requests play on the new current
\* song exactly when the state captured before the stop was 'play'; from
\* 'pause' or 'stop' the cursor moves and the Player ends stopped.
C8_MoveResumesIffPlaying ==
    [][(Navigated /\ lastOp'.result = "ok") =>
        /\ lastOp'.cur = current
        /\ Current(PL').hash =
              queue[current + 1 + (IF lastOp'.op = "next" THEN 1 ELSE -1)].hash
        /\ IF state = "play"
           THEN lastOp'.reqs \in StopThenPlay /\ PlayingCurrent'
           ELSE lastOp'.reqs = <<"stop">> /\ Stopped']_vars

\* A next moved the cursor while the Player was paused and playing nothing
\* was requested.
C8_Witness ==
    /\ Did("next")
    /\ lastOp.was = "pause"
    /\ lastOp.reqs = <<"stop">>
    /\ engTarget = "READY"
    /\ \E i \in 1..Len(bus) : bus[i] = StateChanged("READY")

\* C9: remove(index) with index the current index, while the observed state
\* is 'play', stops the Player, removes the slot and requests play on the
\* new current song if one exists; with the playlist left empty, or from a
\* state other than 'play', the Player ends stopped.
C9_RemoveCurrent ==
    [][(lastOp'.op = "remove" /\ lastOp'.result = "ok" /\ lastOp'.arg = current) =>
        /\ Len(queue') = Len(queue) - 1
        /\ current' = Max(Min(current, Len(queue') - 1), 0)
        /\ IF state = "play" /\ queue' # << >>
           THEN lastOp'.reqs \in StopThenPlay /\ PlayingCurrent'
           ELSE lastOp'.reqs = <<"stop">> /\ Stopped']_vars

\* The current slot was removed while the Player reported 'play', and play
\* was requested on the slot that took its place.
C9_Witness ==
    /\ Did("remove")
    /\ lastOp.arg = lastOp.cur
    /\ lastOp.was = "play"
    /\ lastOp.reqs \in StopThenPlay
    /\ queue # << >>
    /\ engTarget = "PLAYING"

\* C10: remove(index) of a valid index other than the current one makes no
\* stop, play or load call: the observed state and the pipeline are as
\* before, and the current song is the same slot, its index one lower
\* exactly when index was below the cursor.
C10_RemoveOther ==
    [][(lastOp'.op = "remove" /\ lastOp'.result = "ok" /\ lastOp'.arg # current) =>
        /\ lastOp'.reqs = << >>
        /\ state' = state
        /\ UNCHANGED <<engState, engTarget, engUri, engLoaded, engEos, bus>>
        /\ Len(queue') = Len(queue) - 1
        /\ current' = (IF lastOp'.arg < current THEN current - 1 ELSE current)
        /\ queue'[current' + 1].hash = queue[current + 1].hash
        /\ duration'[current' + 1] = duration[current + 1]]_vars

\* A slot below the cursor was removed while the pipeline was playing.
C10_Witness ==
    /\ Did("remove")
    /\ lastOp.arg < lastOp.cur
    /\ current = lastOp.cur - 1
    /\ lastOp.was = "play"
    /\ engState = "PLAYING"

\* C11: remove(index) with index < 0 fails with 'index must be
\* non-negative', and with index >= len(queue) (any index on an empty
\* playlist included) with 'no more songs'; in both cases the queue, the
\* cursor, the refcount map, the blobs and the Player are as before.
C11_RemoveBadIndex ==
    [][lastOp'.op = "remove" =>
        /\ lastOp'.arg < 0 <=> lastOp'.result = "index must be non-negative"
        /\ lastOp'.arg >= Len(queue) <=> lastOp'.result = "no more songs"
        /\ lastOp'.result # "ok" =>
              /\ lastOp'.reqs = << >>
              /\ UNCHANGED <<playlistVars, duration, playerVars, engineVars>>]_vars

\* A remove past the end of a non-empty queue failed while the pipeline was
\* playing.
C11_Witness ==
    /\ lastOp.op = "remove"
    /\ lastOp.result = "no more songs"
    /\ lastOp.arg = Len(queue)
    /\ queue # << >>
    /\ engState = "PLAYING"

\* The step handled an EOS message: Player.run called MusicServer.playereos.
EndOfStream == lastOp'.op = "playereos"

\* C12: end of stream on the last track of the queue: playereos attempts
\* next, the 'no more songs' failure does not leave the polling loop, the
\* cursor and the queue are as before, and playback ends stopped.
C12_EndOfStreamOnLastTrack ==
    [][(EndOfStream /\ AtBoundary("next")) =>
        /\ lastOp'.result = "no more songs"
        /\ lastOp'.reqs = <<"stop">>
        /\ pollpc' = "run"
        /\ queue' = queue /\ current' = current
        /\ refcount' = refcount /\ files' = files
        /\ Stopped']_vars

\* The stream of the last track ended while the Player reported 'play'; the
\* loop goes on and the stop's state changes wait on the bus.
C12_Witness ==
    /\ lastOp.op = "playereos"
    /\ lastOp.result = "no more songs"
    /\ lastOp.was = "play"
    /\ lastOp.cur = Len(queue) - 1
    /\ pollpc = "run"
    /\ \E i \in 1..Len(bus) : bus[i] = StateChanged("READY")

\* C13: end of stream while the observed state is 'play' and a next slot
\* exists: the cursor advances by exactly one slot and play is requested on
\* the new current song.
C13_EndOfStreamAdvances ==
    [][(EndOfStream /\ ~AtBoundary("next") /\ state = "play") =>
        LET k == Len(queue) - Len(queue') IN
        /\ lastOp'.result = "ok"
        /\ current' = current + 1 - k
        /\ queue'[current' + 1].hash = queue[current + 2].hash
        /\ duration'[current' + 1] = duration[current + 2]
        /\ lastOp'.reqs \in StopThenPlay
        /\ pollpc' = "run"
        /\ PlayingCurrent']_vars

\* The stream of a track ended while the Player reported 'play', and the
\* song of the next slot was loaded and asked to play.
C13_Witness ==
    /\ Did("playereos")
    /\ lastOp.was = "play"
    /\ lastOp.reqs = <<"stop", "load", "play">>
    /\ engTarget = "PLAYING"
    /\ song = Current(PL)

\* C14: the Player's observed state never changes from 'stop' directly to
\* 'pause': each change of it is one of stop->play, play->pause, play->stop,
\* pause->play, pause->stop.
C14_ObservedStateChanges ==
    [][state' # state =>
        <<state, state'>> \in {<<"stop", "play">>, <<"play", "pause">>,
                               <<"play", "stop">>, <<"pause", "play">>,
                               <<"pause", "stop">>}]_vars

\* The whole Playlist, Player and pipeline are as before the step.
NothingChanged ==
    UNCHANGED <<playlistVars, duration, playerVars, engineVars>>

\* C15: pause fails with 'player not in PLAY state', makes no call on the
\* pipeline and changes nothing unless the observed state is 'play'; when it
\* is 'play', the paused state is requested from the pipeline.
C15_PauseOnlyWhilePlaying ==
    [][lastOp'.op = "pause" =>
        IF state = "play"
        THEN /\ lastOp'.result = "ok"
             /\ lastOp'.reqs = <<"pause">>
             /\ engTarget' = "PAUSED"
             /\ Rank(engState') <= Rank("PAUSED")
             /\ UNCHANGED <<playlistVars, playerVars>>
        ELSE /\ lastOp'.result = "player not in PLAY state"
             /\ lastOp'.reqs = << >>
             /\ NothingChanged]_vars

\* A pause was refused while the observed state was 'pause' and the pipeline
\* paused.
C15_Witness ==
    /\ lastOp.op = "pause"
    /\ lastOp.result = "player not in PLAY state"
    /\ lastOp.was = "pause"
    /\ engState = "PAUSED"

\* C16: MusicServer.stop while the observed state is 'stop' fails with
\* 'already stopped', makes no call on the pipeline and leaves the Playlist
\* and the Player as they were.
C16_StopWhileStopped ==
    [][lastOp'.op = "stop" =>
        /\ state = "stop" <=> lastOp'.result = "already stopped"
        /\ state = "stop" => lastOp'.reqs = << >> /\ NothingChanged
        /\ state # "stop" => lastOp'.result = "ok"]_vars

\* A stop was refused after songs were enqueued and the Player had been
\* stopped before.
C16_Witness ==
    /\ lastOp.op = "stop"
    /\ lastOp.result = "already stopped"
    /\ queue # << >>
    /\ song # NoSong
    /\ engState = "READY"

\* C17: MusicServer.play on an empty playlist fails with 'no songs to play'
\* and makes no load or play call on the Player; on a non-empty playlist it
\* requests play on the song at the cursor.
C17_PlayCurrentOrFail ==
    [][lastOp'.op = "play" =>
        IF queue = << >>
        THEN /\ lastOp'.result = "no songs to play"
             /\ lastOp'.reqs = << >>
             /\ NothingChanged
        ELSE /\ lastOp'.result = "ok"
             /\ lastOp'.reqs \in {<<"load", "play">>, <<"play">>}
             /\ UNCHANGED <<playlistVars, state>>
             /\ PlayingCurrent']_vars

\* Play was requested with the cursor on the second slot, whose song was
\* loaded.
C17_Witness ==
    /\ Did("play")
    /\ lastOp.reqs = <<"load", "play">>
    /\ current = 1
    /\ song = queue[2]
    /\ engTarget = "PLAYING"

\* The step ran skipforwards or skipbackwards.
Skipped == lastOp'.op \in {"skipforwards", "skipbackwards"}
\* The Player is not stopped and the duration of the song it holds is known:
\* what a seek with a fraction inside the range needs.
SeekWouldSucceed == state # "stop" /\ duration[song.id] # None

\* C18: seek with a fraction outside [0.0, 1.0] fails with 'wrong position
\* value' in every playback state; with a fraction inside the range it fails
\* with 'player stopped' exactly when the observed state is 'stop' or the
\* duration of the loaded song is unknown; a failing seek sends no seek to
\* the pipeline.
C18_SeekChecks ==
    [][lastOp'.op = "seek" =>
        LET f == lastOp'.arg
            inside == 0 <= f /\ f <= FractionScale
        IN /\ ~inside <=> lastOp'.result = "wrong position value"
           /\ inside => (lastOp'.result = "player stopped" <=> ~SeekWouldSucceed)
           /\ lastOp'.result \in {"ok", "wrong position value", "player stopped"}
           /\ lastOp'.result # "ok" => lastOp'.reqs = << >> /\ lastOp'.target = None
           /\ lastOp'.result = "ok" =>
                 /\ lastOp'.reqs = <<"seek">>
                 /\ lastOp'.target = (duration[song.id] * f) \div FractionScale
           /\ NothingChanged]_vars

\* A seek above the range was refused for its value while the Player was
\* stopped.
C18_Witness ==
    /\ lastOp.op = "seek"
    /\ lastOp.arg > FractionScale
    /\ lastOp.result = "wrong position value"
    /\ lastOp.was = "stop"
    /\ state = "stop"

\* C19 as stated: a skip succeeds exactly when a seek with a fraction inside
\* [0.0, 1.0] would succeed (observed state not 'stop' and duration known),
\* and otherwise fails with 'player stopped'.
C19_SkipLikeSeek ==
    [][Skipped =>
        IF SeekWouldSucceed
        THEN lastOp'.result = "ok"
        ELSE lastOp'.result = "player stopped"]_vars

\* C19: a skip succeeds exactly when the observed state is not 'stop', the
\* duration of the loaded song is known and a position has been cached, and
\* otherwise fails with 'player stopped' and sends no seek: where a skip
\* succeeds a seek would, but a seek can succeed where a skip fails.
C19_SkipNeedsPosition ==
    [][Skipped =>
        /\ IF SeekWouldSucceed /\ position # None
           THEN lastOp'.result = "ok" /\ lastOp'.reqs = <<"seek">>
           ELSE lastOp'.result = "player stopped" /\ lastOp'.reqs = << >>
        /\ lastOp'.result = "ok" => PlayerSeek(0).err = ""
        /\ NothingChanged]_vars

\* A skip was refused while the Player reported 'play' and knew the duration
\* of its song, but no position.
C19_Witness ==
    /\ lastOp.op = "skipforwards"
    /\ lastOp.result = "player stopped"
    /\ state = "play"
    /\ duration[song.id] # None
    /\ position = None

\* C20: a successful skipforwards seeks to min(p + 10, duration) and a
\* successful skipbackwards to max(p - 10, 0), p the last observed position;
\* the target is always within [0, duration].
C20_SkipTargetInRange ==
    [][(Skipped /\ lastOp'.result = "ok") =>
        /\ lastOp'.op = "skipforwards" =>
              lastOp'.target = Min(position + SkipSeconds, duration[song.id])
        /\ lastOp'.op = "skipbackwards" =>
              lastOp'.target = Max(position - SkipSeconds, 0)
        /\ 0 <= lastOp'.target /\ lastOp'.target <= duration[song.id]]_vars

\* C21: setvolume(v) with v within [0, 1] succeeds whatever the playback
\* state, and status reports v right afterwards; with v outside the range it
\* fails with 'wrong volume' and the volume is the one it was.
C21_SetvolumeUngated ==
    [][lastOp'.op = "setvolume" =>
          LET v == lastOp'.arg IN
          IF 0 <= v /\ v <= FractionScale
          THEN lastOp'.result = "ok" /\ StatusVolume' = v
          ELSE lastOp'.result = "wrong volume" /\ StatusVolume' = StatusVolume
      ]_vars
\* The volume has been set to 0 while the Player was stopped.
C21_Witness ==
    /\ Did("setvolume")
    /\ lastOp.was = "stop"
    /\ lastOp.arg = 0
    /\ StatusVolume = 0

\* C22: whenever the observed state is stop the cached position is None; a
\* position is written only while the observed state is not stop, and the
\* step that observes a change into stop clears it.
C22_NoPositionWhileStopped ==
    /\ [](state = "stop" => position = None)
    /\ [][/\ (position' # position /\ position' # None) =>
                (state # "stop" /\ state' = state)
          /\ (state # "stop" /\ state' = "stop") => position' = None]_vars
\* A stop has been observed on a song whose attributes had been polled while
\* it was not stopped.
C22_Witness ==
    /\ state = "stop"
    /\ position = None
    /\ song # NoSong
    /\ duration[song.id] # None
    /\ engState = "READY"
    /\ bus = << >>

\* C23: clear always succeeds, whatever the Player's state: it asks the
\* Player to stop and empties the Playlist, so that afterwards the queue is
\* empty, currentindex is None, the refcount map is empty, no blob is left in
\* the directory, and playback ends stopped.
C23_ClearStopsAndEmpties ==
    [][lastOp'.op = "clear" =>
        /\ lastOp'.result = "ok"
        /\ lastOp'.reqs = <<"stop">>
        /\ queue' = << >>
        /\ CurrentIndex(PL)' = None
        /\ refcount' = << >>
        /\ files' = {}
        /\ Stopped']_vars
\* A playlist of several slots was cleared while the Player reported 'play'.
C23_Witness ==
    /\ Did("clear")
    /\ lastOp.was = "play"
    /\ lastOp.cur = 1
    /\ queue = << >>
    /\ files = {}
    /\ engState = "READY"

\* The names of the command handlers in lastOp.
Commands ==
    {"enqueue", "clear", "next", "prev", "remove", "play", "pause", "stop",
     "seek", "skipbackwards", "skipforwards", "setvolume"}
\* The observed state the spec gives for a state of the pipeline.
Observed(new) ==
    IF new \in {"NULL", "READY"} THEN "stop"
    ELSE IF new = "PAUSED" THEN "pause"
    ELSE "play"

\* C24: no command changes the observed state; it changes only in an
\* iteration of the loop that pops a state change of the pipeline itself,
\* and becomes stop for NULL and READY, pause for PAUSED, play for PLAYING.
C24_StateWrittenByLoopOnly ==
    [][/\ lastOp'.op \in Commands => state' = state
       /\ state' # state =>
             /\ lastOp' = NoOp
             /\ pollpc' = "run"
             /\ bus # << >>
             /\ bus' = Tail(bus)
             /\ Head(bus).type = "STATE_CHANGED"
             /\ Head(bus).src = "pipeline"
             /\ state' = Observed(Head(bus).new)]_vars
\* The loop has just popped the pipeline's change to PLAYING, and the state
\* reported has become 'play'.
C24_Witness ==
    /\ state = "play"
    /\ lastOp = NoOp
    /\ pollpc = "run"
    /\ engState = "PLAYING"
    /\ bus = << >>

\* The observed state is s and nothing is under way that would change it:
\* the pipeline is in the state it was asked for and no message is pending.
SettledIn(s) ==
    /\ state = s
    /\ STATES(engState) = s
    /\ engState = engTarget
    /\ bus = << >>
\* Something else has happened since the command op was accepted: another
\* command was issued, or the end of a stream was posted or handled.
Interrupted(op) ==
    \/ lastOp.op \in Commands \ {op}
    \/ lastOp.op = "playereos"
    \/ engEos

\* C25: once play has been accepted (the playlist is not empty), unless a
\* further command or the end of the stream intervenes, the observed state
\* eventually is play with nothing pending; likewise stop accepted while not
\* stopped leads to stop; and a state settled in this way is left only by a
\* step that is a command or the posting of an end of stream.
C25_RequestEventuallyObserved ==
    /\ (lastOp.op = "play" /\ lastOp.result = "ok")
          ~> (SettledIn("play") \/ Interrupted("play"))
    /\ (lastOp.op = "stop" /\ lastOp.result = "ok")
          ~> (SettledIn("stop") \/ Interrupted("stop"))
    /\ [][\A s \in {"play", "stop"} :
            (SettledIn(s) /\ lastOp'.op \notin Commands /\ engEos' = engEos)
               => SettledIn(s)']_vars
\* Play has been observed and the loop sleeps with nothing pending.
C25_Witness ==
    /\ SettledIn("play")
    /\ pollpc = "sleep"
    /\ lastOp = NoOp
    /\ ~engEos

\* The sequence a is the beginning of the sequence b: nothing was popped.
IsPrefix(a, b) == Len(a) <= Len(b) /\ SubSeq(b, 1, Len(a)) = a

\* C26, as far as the loop gets to its test: once close has been requested
\* the loop handles no message and writes neither state nor position; what
\* it does next is to return, after one set_state(NULL); and once it has
\* returned it does nothing more.
C26_LoopTestAfterClose ==
    [][/\ closing =>
             /\ state' = state /\ position' = position
             /\ IsPrefix(bus, bus')
             /\ lastOp'.op \notin {"playereos", "playererror"}
             /\ pollpc' \in {pollpc, "done"}
       /\ lastOp'.op = "run" =>
             /\ closing
             /\ pollpc \in {"sleep", "run"} /\ pollpc' = "done"
             /\ lastOp'.reqs = <<"release">>
             /\ engState' = "NULL" /\ engTarget' = "NULL"
       /\ pollpc = "done" => (pollpc' = "done" /\ lastOp'.op # "run")]_vars
\* The loop has returned from a playing pipeline, which it released.
C26_Witness ==
    /\ lastOp.op = "run"
    /\ lastOp.was = "play"
    /\ pollpc = "done"
    /\ engState = "NULL"

\* C26: once close has been requested the loop sends the final release and
\* terminates: the IOLoop is not stopped, and with it the process ended,
\* with the loop still waiting to observe the flag.
C26_LoopReleasesAndTerminates ==
    (closing /\ ioloop = "stopped") => pollpc = "done"

\* C27: once close has been requested no command is accepted: a command
\* issued after it neither changes the Playlist nor asks anything of the
\* pipeline, and after the loop's final release the pipeline stays released.
C27_NoCommandAfterClose ==
    [][/\ (closing /\ lastOp'.op \in Commands) =>
             /\ UNCHANGED <<playlistVars, engineVars>>
             /\ lastOp'.reqs = << >>
       /\ pollpc = "done" => (engTarget' = "NULL" /\ engState' = "NULL")]_vars
\* After the loop has released the pipeline, a play command was accepted and
\* the pipeline has left NULL again, with no loop left to release it.
C27_Witness ==
    /\ closing
    /\ pollpc = "done"
    /\ lastOp.op = "none"
    /\ engTarget = "PLAYING"
    /\ engState # "NULL"
    /\ ioloop = "stopped"

\* The step is an iteration of Player.run that popped a message.
IterationWithMessage == PollMessage \/ PollNoise

\* C28 as stated: the loop waits after every iteration, whether or not the
\* iteration popped a message.
C28_WaitsAfterEveryIteration ==
    [][(IterationWithMessage \/ PollIdle) => pollpc' = "sleep"]_vars

\* C28, amended: the loop waits, letting commands run, after an iteration
\* that found no message; after an iteration that popped one it goes
\* straight to its next test, and no command runs in between.
C28_WaitsOnlyWhenIdle ==
    [][/\ IterationWithMessage => (pollpc' = "run" /\ ~CanRun')
       /\ PollIdle => (pollpc' = "sleep" /\ CanRun')
       /\ pollpc = "run" => lastOp'.op \notin Commands]_vars
\* The loop has handled an end of stream and, without waiting, is about to
\* pop the messages that the handling has posted.
C28_Witness ==
    /\ pollpc = "run"
    /\ lastOp.op = "playereos"
    /\ bus # << >>

\* C29: an error message popped by the loop is only reported: the queue,
\* the cursor, the blobs, the observed state and the song held are as
\* before, nothing is asked of the pipeline, nothing is raised, and the loop
\* goes on.
C29_ErrorOnlyReported ==
    [][lastOp'.op = "playererror" =>
        /\ lastOp'.result = "ok"
        /\ lastOp'.reqs = << >>
        /\ UNCHANGED <<playlistVars, duration, playerVars>>
        /\ UNCHANGED <<engState, engTarget, engUri, engLoaded, engEos>>
        /\ pollpc' = "run"]_vars
\* An error was reported while the first of two songs was played, and the
\* cursor is still on it.
C29_Witness ==
    /\ lastOp.op = "playererror"
    /\ lastOp.was = "play"
    /\ Len(queue) = 2
    /\ current = 0
    /\ engTarget = "PLAYING"

\* C30: after remove(index) of the current slot, the current song is the one
\* of the slot that followed it; if the slot removed was the last one, it is
\* the one of the slot that preceded it; and if no slot is left,
\* currentindex is None.
C30_CursorAfterRemovingCurrent ==
    [][(lastOp'.op = "remove" /\ lastOp'.result = "ok"
          /\ lastOp'.arg = current) =>
        IF Len(queue) = 1
        THEN queue' = << >> /\ CurrentIndex(PL)' = None
        ELSE IF current = Len(queue) - 1
        THEN /\ CurrentIndex(PL)' = current - 1
             /\ Current(PL)'.hash = queue[current].hash
        ELSE /\ CurrentIndex(PL)' = current
             /\ Current(PL)'.hash = queue[current + 2].hash]_vars
\* The first of three slots was removed while it was the current one, and
\* the cursor is on the slot that followed it, which holds another blob than
\* the slot after it.
C30_Witness ==
    /\ Did("remove")
    /\ lastOp.arg = 0
    /\ lastOp.cur = 0
    /\ Len(queue) = 2
    /\ current = 0
    /\ queue[1].hash # queue[2].hash

\* The call c is among the calls the handler of the step made on the Player.
Called(c) == \E k \in 1..Len(lastOp'.reqs) : lastOp'.reqs[k] = c
\* The Song object, under its name before the step, that the handler of the
\* step passes to Player.play: the current one for play, the one of the
\* next slot for next and playereos, of the slot before for prev, and for
\* remove of the current slot the one that follows it or, behind the last
\* slot, the one before it.
PlayedSong ==
    IF lastOp'.op = "play" THEN Current(PL)
    ELSE IF lastOp'.op \in {"next", "playereos"} THEN queue[current + 2]
    ELSE IF lastOp'.op = "prev" THEN queue[current]
    ELSE IF current < Len(queue) - 1 THEN queue[current + 2]
    ELSE queue[current]

\* C31: a handler that calls Player.play(s) sets the uri exactly when s is
\* not the Song object the Player already holds; on the Song it holds it
\* only asks for PLAYING, and the uri and the Song held are the ones they
\* were.
C31_LoadsIffOtherSong ==
    [][Called("play") =>
        /\ Called("load") <=> song # PlayedSong
        /\ engTarget' = "PLAYING"
        /\ song' = Current(PL)'
        /\ engUri' = PlayedSong.hash
        /\ ~Called("load") => (engUri' = engUri /\ song'.hash = song.hash)]_vars
\* Play was accepted on the song the Player held, paused: only PLAYING was
\* asked for.
C31_Witness ==
    /\ Did("play")
    /\ lastOp.was = "pause"
    /\ lastOp.reqs = <<"play">>
    /\ engTarget = "PLAYING"
    /\ engState = "PAUSED"
    /\ song = Current(PL)

\* The place after the step (1-based, 0 if it has left the queue) of the
\* Song object that was at place j before it: remove closes the gap, enqueue
\* and next (and with it playereos) evict from the left, clear empties the
\* queue, and nothing else moves a slot.
NewPlace(j) ==
    IF lastOp'.op = "remove" /\ lastOp'.result = "ok"
    THEN IF j < lastOp'.arg + 1 THEN j
         ELSE IF j = lastOp'.arg + 1 THEN 0 ELSE j - 1
    ELSE IF lastOp'.op \in {"enqueue", "next", "playereos"}
    THEN LET added == IF lastOp'.op = "enqueue" THEN 1 ELSE 0
             n == Len(queue) + added - Len(queue')
         IN IF j > n THEN j - n ELSE 0
    ELSE IF lastOp'.op = "clear" THEN 0
    ELSE j
\* The step changed the duration of the Song object named old before it and
\* new after it in the one way allowed: it was None, the step is the idle
\* iteration of the loop, the Player is not stopped and holds that Song.
RecordedOnce(old, new) ==
    duration'[new] # duration[old] =>
        /\ duration[old] = None
        /\ duration'[new] # None
        /\ lastOp' = NoOp /\ pollpc' = "sleep" /\ bus = << >>
        /\ state # "stop"
        /\ song.id = old

\* C32: the duration of a Song changes at most once, from None to a value:
\* only in an iteration of the loop that found no message, while the Player
\* is not stopped and holds that Song with its duration still None; no
\* command, message or later iteration changes a duration that is known,
\* wherever the Song has moved in the queue and for the Song the Player
\* holds.
C32_DurationRecordedOnce ==
    [][/\ \A j \in 1..Len(queue) :
             NewPlace(j) # 0 => RecordedOnce(j, NewPlace(j))
       /\ (song # NoSong /\ ~Called("load")) => RecordedOnce(song.id, song'.id)
      ]_vars
\* The second slot is played and its duration is known, and so is still the
\* duration of the first slot, recorded before the cursor moved.
C32_Witness ==
    /\ Len(queue) = 2
    /\ current = 1
    /\ state = "play"
    /\ song = queue[2]
    /\ duration[1] # None
    /\ duration[2] # None
    /\ lastOp = NoOp
    /\ pollpc = "sleep"

\* C33: in every state the queue is no longer than the capacity or the
\* cursor is 0: the queue is over its capacity only while no slot before the
\* cursor is left to evict.
C33_OverCapacityOnlyAtCursorZero ==
    Len(queue) <= PlaylistSize \/ current = 0
\* An enqueue has left the queue over its capacity, the cursor on the first
\* slot.
C33_Witness ==
    /\ Did("enqueue")
    /\ Len(queue) > PlaylistSize
    /\ current = 0

\* C34: whenever the state last asked of the pipeline is PLAYING or PAUSED,
\* the Song the Player holds, whose blob the uri names, is the current song
\* of the Playlist and the blob is on disk: the pipeline is never asked to
\* play or to pause a song that has left the Playlist.
C34_RequestedSongIsCurrent ==
    engTarget \in {"PLAYING", "PAUSED"} =>
        /\ queue # << >>
        /\ song = Current(PL)
        /\ engUri = song.hash
        /\ engUri \in files
\* Pause was accepted on an observed 'play' that a remove or a clear had
\* made stale: the pipeline is asked for PAUSED on a song that is in no slot
\* and whose blob is gone.
C34_Witness ==
    /\ Did("pause")
    /\ engTarget = "PAUSED"
    /\ engState = "READY"
    /\ song.id = Detached
    /\ engUri \notin files

\* The step before this one was a next, a prev or a remove of the current
\* slot that succeeded: what the bus holds at its head was posted before that
\* command ran.
JustNavigated ==
    /\ lastOp.result = "ok"
    /\ \/ lastOp.op \in {"next", "prev"}
       \/ lastOp.op = "remove" /\ lastOp.arg = lastOp.cur

\* C35: an end of stream moves the cursor only past the song that produced
\* it: when a next, a prev or a remove of the current slot has run between
\* its posting and its handling, the handling leaves the cursor and the
\* queue as that command left them.
C35_StaleEosDoesNotAdvance ==
    [][(EndOfStream /\ JustNavigated) =>
          (queue' = queue /\ current' = current)]_vars

\* C36: once a stop has been accepted no play is asked of the pipeline
\* until a client plays: the end of stream that was pending when the stop
\* ran, handled right after it, does not start the song after.
C36_NoPlayAfterStop ==
    [][(EndOfStream /\ lastOp.op = "stop" /\ lastOp.result = "ok") =>
          ~Called("play")]_vars

\* The step is a next, a prev or a remove of the current slot that succeeds
\* and leaves a current song.
MovesToAnotherSong ==
    /\ lastOp'.result = "ok"
    /\ \/ lastOp'.op \in {"next", "prev"}
       \/ lastOp'.op = "remove" /\ lastOp'.arg = current
    /\ queue' # << >>

\* C37: a next, a prev or a remove of the current slot that succeeds while
\* play is the last state asked of the pipeline ends with play asked for the
\* new current song, whether or not the loop has observed 'play' yet.
C37_NavigationKeepsPlaying ==
    [][(MovesToAnotherSong /\ engTarget = "PLAYING") => PlayingCurrent']_vars

\* C38: a stop never fails with 'already stopped' while the state last
\* asked of the pipeline is PLAYING or PAUSED: it asks the pipeline to stop,
\* even when the loop has not observed that state yet.
C38_StopReachesPipeline ==
    [][(lastOp'.op = "stop" /\ engTarget \in {"PLAYING", "PAUSED"}) =>
          /\ lastOp'.result = "ok"
          /\ Called("stop")
          /\ engTarget' = "READY"]_vars

\* A stop has just failed with 'already stopped' while PLAYING is the state
\* last asked of the pipeline.
C38_Witness ==
    /\ lastOp.op = "stop"
    /\ lastOp.result = "already stopped"
    /\ engTarget = "PLAYING"

=============================================================================
